---- MODULE Spec2Model ----
(***************************************************************************)
(* BadgerDB buffer manager (src/src/buffer.cpp): a pool of numBufs frames, *)
(* a descriptor per frame, a hash table from (file, pageNo) to frame, and  *)
(* the clock replacement policy.  One action per public method of BufMgr;  *)
(* a single synchronous caller.                                            *)
(***************************************************************************)
EXTENDS Integers, Sequences, FiniteSets, TLC

\* ------------------------------------------------------------------ bounds
numBufs  == 2      \* pool size handed to the constructor
NumFiles == 2      \* files the caller works with
MaxPage  == 2      \* the largest page number of the first file
MaxPin   == 2      \* cap on a descriptor's pinCnt (guard of a fetch hit)
MaxRefused == 1    \* inserts the hash table refuses in a run (SpecFull only)

Frames  == 0 .. (numBufs - 1)
Files   == 1 .. NumFiles
PageNos == 1 .. MaxPage
\* The files differ in size: file f has room for the pages 1..MaxPage-f+1.
Keys    == {k \in Files \X PageNos : k[1] + k[2] <= MaxPage + 1}

NoFile         == 0     \* File(): the descriptor's file after clear()
INVALID_NUMBER == 0     \* Page::INVALID_NUMBER
NoFrame        == -1    \* no frame returned / lookup found nothing

VARIABLES
  bufDescTable,   \* frame -> descriptor
  hashTable,      \* key -> frame, or NoFrame when the key has no entry
  bufPool,        \* frame -> page_number() of the Page held (INVALID_NUMBER at start)
  clockHand,
  store,          \* the pages that exist in the files (page store)
  last,           \* the call that was made last: arguments, outcome, I/O
  net,            \* per key: fetches minus successful unpins (SpecPins only)
  refused         \* the inserts the hash table has refused so far (SpecFull only)

vars == <<bufDescTable, hashTable, bufPool, clockHand, store, last, net, refused>>

\* --------------------------------------------------------- frame descriptor
\* BufDesc::clear()
clear ==
  [valid |-> FALSE, file |-> NoFile, pageNo |-> INVALID_NUMBER,
   pinCnt |-> 0, dirty |-> FALSE, refbit |-> FALSE]

\* BufDesc::Set(file, pageNo)
Set(file, pageNo) ==
  [valid |-> TRUE, file |-> file, pageNo |-> pageNo,
   pinCnt |-> 1, dirty |-> FALSE, refbit |-> TRUE]

\* ------------------------------------------------------------- hash table
\* BufHashTbl::lookup: the frame, or NoFrame for HashNotFoundException
lookup(h, file, pageNo) == h[<<file, pageNo>>]

\* BufHashTbl::insert
insert(h, file, pageNo, frameNo) == [h EXCEPT ![<<file, pageNo>>] = frameNo]

\* BufHashTbl::remove
remove(h, file, pageNo) == [h EXCEPT ![<<file, pageNo>>] = NoFrame]

\* ------------------------------------------------------------------ clock
\* BufMgr::advanceClock
advanceClock(hand) == (hand + 1) % numBufs

\* An I/O or bookkeeping event of a call, in program order.
Ev(what, file, pageNo, frame) ==
  [ev |-> what, file |-> file, pageNo |-> pageNo, frame |-> frame]

NoSel == [frame |-> NoFrame, valid |-> FALSE, refbit |-> FALSE,
          pinCnt |-> 0, dirty |-> FALSE, file |-> NoFile, pageNo |-> INVALID_NUMBER]

Sel(d, c) == [frame |-> c, valid |-> d[c].valid, refbit |-> d[c].refbit,
              pinCnt |-> d[c].pinCnt, dirty |-> d[c].dirty,
              file |-> d[c].file, pageNo |-> d[c].pageNo]

\* evict with the hand moved one frame past the frame chosen.
evictHandPast(d, pool, c, steps) ==
  [status |-> "ok", desc |-> [d EXCEPT ![c] = Set(d[c].file, d[c].pageNo)],
   hand |-> advanceClock(c), frame |-> c, steps |-> steps, sel |-> Sel(d, c),
   io |-> (IF d[c].dirty
             THEN <<Ev("write", d[c].file, pool[c], c)>>
             ELSE <<>>) \o <<Ev("Set", d[c].file, d[c].pageNo, c)>>]

\* The frame chosen at the sweep step that finds frame c valid, refbit clear
\* and pinCnt = 0 (buffer.cpp 71-77): write back if dirty, then Set.
evict(d, pool, c, steps) ==
  [status |-> "ok", desc |-> [d EXCEPT ![c] = Set(d[c].file, d[c].pageNo)],
   hand |-> c, frame |-> c, steps |-> steps, sel |-> Sel(d, c),
   io |-> (IF d[c].dirty
             THEN <<Ev("write", d[c].file, pool[c], c)>>
             ELSE <<>>) \o <<Ev("Set", d[c].file, d[c].pageNo, c)>>]

\* The loop of BufMgr::allocBuf: d the descriptors, h the clock hand, n the
\* local num_frames_pinned, k the advances made so far in this call.
RECURSIVE sweep(_, _, _, _, _)
sweep(d, pool, h, n, k) ==
  LET c == advanceClock(h) IN
  IF n >= numBufs
    THEN [status |-> "BufferExceeded", desc |-> d, hand |-> c, frame |-> NoFrame,
          steps |-> k + 1, sel |-> NoSel, io |-> <<>>]
  ELSE IF d[c].valid
    THEN IF ~d[c].refbit
           THEN IF d[c].pinCnt = 0
                  THEN evict(d, pool, c, k + 1)
                  ELSE sweep(d, pool, c, n + 1, k + 1)
           ELSE sweep([d EXCEPT ![c].refbit = FALSE], pool, c, n, k + 1)
    ELSE [status |-> "ok", desc |-> d, hand |-> c, frame |-> c,
          steps |-> k + 1, sel |-> Sel(d, c), io |-> <<>>]

\* allocBuf with num_frames_pinned starting one short.
allocBufLateCount(d, pool, hand) == sweep(d, pool, hand, -1, 0)

\* BufMgr::allocBuf
allocBuf(d, pool, hand) == sweep(d, pool, hand, 0, 0)


\* ------------------------------------------------------ record of a call
Call(op, file, pageNo, status, frame, hit, a, io) ==
  [op |-> op, file |-> file, pageNo |-> pageNo,
   status |-> status, frame |-> frame, hit |-> hit,
   steps |-> a.steps, sel |-> a.sel, io |-> io]

NoAlloc == [steps |-> 0, sel |-> NoSel]

\* The state a method leaves behind.
Out(d, h, pool, hand, st, call) ==
  [desc |-> d, hash |-> h, pool |-> pool, hand |-> hand, store |-> st, last |-> call]

\* ---------------------------------------------------------------- methods
\* BufMgr::readPage.  full: the hash table refuses the insert.
readPageOut(file, pageNo, full) ==
  LET frameId == lookup(hashTable, file, pageNo) IN
  IF frameId # NoFrame
    THEN Out([bufDescTable EXCEPT ![frameId].pinCnt = @ + 1,
                                  ![frameId].refbit = TRUE],
             hashTable, bufPool, clockHand, store,
             Call("readPage", file, pageNo, "ok", frameId, TRUE, NoAlloc, <<>>))
    ELSE
      LET a == allocBuf(bufDescTable, bufPool, clockHand) IN
      IF a.status # "ok"
        THEN Out(a.desc, hashTable, bufPool, a.hand, store,
                 Call("readPage", file, pageNo, a.status, NoFrame, FALSE, a, a.io))
      ELSE IF <<file, pageNo>> \notin store
        THEN Out(a.desc, hashTable, bufPool, a.hand, store,
                 Call("readPage", file, pageNo, "InvalidPage", NoFrame, FALSE, a, a.io))
      ELSE
        LET pool2 == [bufPool EXCEPT ![a.frame] = pageNo]
            io2   == a.io \o <<Ev("read", file, pageNo, a.frame),
                                Ev("load", file, pageNo, a.frame)>>
        IN IF full
             THEN Out(a.desc, hashTable, pool2, a.hand, store,
                      Call("readPage", file, pageNo, "InsufficientSpace",
                           NoFrame, FALSE, a, io2))
             ELSE Out([a.desc EXCEPT ![a.frame] = Set(file, pageNo)],
                      insert(hashTable, file, pageNo, a.frame), pool2, a.hand, store,
                      Call("readPage", file, pageNo, "ok", a.frame, FALSE, a,
                           io2 \o <<Ev("insert", file, pageNo, a.frame),
                                    Ev("Set", file, pageNo, a.frame)>>))

\* BufMgr::unPinPage
unPinPageOut(file, pageNo, dirty) ==
  LET frameId == lookup(hashTable, file, pageNo) IN
  IF frameId = NoFrame
    THEN Out(bufDescTable, hashTable, bufPool, clockHand, store,
             Call("unPinPage", file, pageNo, "ok", NoFrame, FALSE, NoAlloc, <<>>))
  ELSE IF bufDescTable[frameId].pinCnt = 0
    THEN Out(bufDescTable, hashTable, bufPool, clockHand, store,
             Call("unPinPage", file, pageNo, "PageNotPinned", frameId, TRUE,
                  NoAlloc, <<>>))
    ELSE Out([bufDescTable EXCEPT ![frameId].pinCnt = @ - 1,
                                  ![frameId].dirty = (dirty \/ @)],
             hashTable, bufPool, clockHand, store,
             Call("unPinPage", file, pageNo, "ok", frameId, TRUE, NoAlloc, <<>>))

\* BufMgr::allocPage.  pageNo: the number file.allocatePage() hands out.
allocPageOut(file, pageNo, full) ==
  LET st2 == store \cup {<<file, pageNo>>}
      io1 == <<Ev("allocate", file, pageNo, NoFrame)>>
      a   == allocBuf(bufDescTable, bufPool, clockHand)
  IN IF a.status # "ok"
       THEN Out(a.desc, hashTable, bufPool, a.hand, st2,
                Call("allocPage", file, pageNo, a.status, NoFrame, FALSE, a,
                     io1 \o a.io))
       ELSE Out([a.desc EXCEPT ![a.frame] = Set(file, pageNo)],
                IF full THEN hashTable ELSE insert(hashTable, file, pageNo, a.frame),
                [bufPool EXCEPT ![a.frame] = pageNo], a.hand, st2,
                Call("allocPage", file, pageNo, "ok", a.frame, FALSE, a,
                     io1 \o a.io \o <<Ev("load", file, pageNo, a.frame),
                                      Ev("Set", file, pageNo, a.frame)>>
                         \o (IF full THEN <<>>
                                     ELSE <<Ev("insert", file, pageNo, a.frame)>>)))

\* The loop of BufMgr::flushFile from frame index on.
RECURSIVE flushFrom(_, _, _, _, _)
flushFrom(d, h, file, index, io) ==
  IF index >= numBufs
    THEN [status |-> "ok", desc |-> d, hash |-> h, frame |-> NoFrame, io |-> io]
  ELSE IF file = d[index].file
    THEN IF ~d[index].valid
           THEN [status |-> "BadBuffer", desc |-> d, hash |-> h, frame |-> index, io |-> io]
         ELSE IF d[index].pinCnt >= 1
           THEN [status |-> "PagePinned", desc |-> d, hash |-> h, frame |-> index, io |-> io]
         ELSE flushFrom([d EXCEPT ![index] = clear],
                        remove(h, file, d[index].pageNo), file, index + 1,
                        io \o (IF d[index].dirty
                                 THEN <<Ev("write", d[index].file, bufPool[index], index)>>
                                 ELSE <<>>)
                           \o <<Ev("remove", file, d[index].pageNo, index),
                                Ev("clear", file, d[index].pageNo, index)>>)
    ELSE flushFrom(d, h, file, index + 1, io)

\* BufMgr::flushFile
flushFileOut(file) ==
  LET r == flushFrom(bufDescTable, hashTable, file, 0, <<>>) IN
  Out(r.desc, r.hash, bufPool, clockHand, store,
      Call("flushFile", file, INVALID_NUMBER, r.status, r.frame, FALSE,
           NoAlloc, r.io))

\* BufMgr::disposePage
disposePageOut(file, PageNo) ==
  LET frameId == lookup(hashTable, file, PageNo)
      del     == <<Ev("delete", file, PageNo, NoFrame)>>
  IN IF frameId # NoFrame
       THEN Out([bufDescTable EXCEPT ![frameId] = clear],
                remove(hashTable, file, PageNo), bufPool, clockHand,
                store \ {<<file, PageNo>>},
                Call("disposePage", file, PageNo, "ok", frameId, TRUE, NoAlloc,
                     <<Ev("clear", file, PageNo, frameId),
                       Ev("remove", file, PageNo, frameId)>> \o del))
       ELSE Out(bufDescTable, hashTable, bufPool, clockHand,
                store \ {<<file, PageNo>>},
                Call("disposePage", file, PageNo, "ok", NoFrame, FALSE, NoAlloc, del))

\* ---------------------------------------------------------------- actions
Apply(r) ==
  /\ bufDescTable' = r.desc
  /\ hashTable' = r.hash
  /\ bufPool' = r.pool
  /\ clockHand' = r.hand
  /\ store' = r.store
  /\ last' = r.last

\* A fetch hit is taken only below the pin cap.
CanFetch(file, pageNo) ==
  LET frameId == lookup(hashTable, file, pageNo) IN
  frameId # NoFrame => bufDescTable[frameId].pinCnt < MaxPin

\* The number of events of kind what in the log io.
Count(io, what) == Cardinality({i \in DOMAIN io : io[i].ev = what})

\* The call c reached hashTable.insert and the insert was refused.
Refused(c) ==
  \/ c.status = "InsufficientSpace"
  \/ c.op = "allocPage" /\ c.status = "ok" /\ Count(c.io, "insert") = 0

readPage(file, pageNo, full) ==
  /\ CanFetch(file, pageNo)
  /\ full => refused < MaxRefused
  /\ Apply(readPageOut(file, pageNo, full))
  /\ refused' = IF Refused(last') THEN refused + 1 ELSE refused
  /\ UNCHANGED net

unPinPage(file, pageNo, dirty) ==
  /\ Apply(unPinPageOut(file, pageNo, dirty))
  /\ UNCHANGED <<net, refused>>

allocPage(file, pageNo, full) ==
  /\ <<file, pageNo>> \notin store
  /\ full => refused < MaxRefused
  /\ Apply(allocPageOut(file, pageNo, full))
  /\ refused' = IF Refused(last') THEN refused + 1 ELSE refused
  /\ UNCHANGED net

flushFile(file) ==
  /\ Apply(flushFileOut(file))
  /\ UNCHANGED <<net, refused>>

disposePage(file, PageNo) ==
  /\ Apply(disposePageOut(file, PageNo))
  /\ UNCHANGED <<net, refused>>

\* readPage and unPinPage with the caller's count of its pins per key kept in
\* net (capped like pinCnt).
readPageCounted(file, pageNo) ==
  /\ CanFetch(file, pageNo)
  /\ net[<<file, pageNo>>] < MaxPin
  /\ Apply(readPageOut(file, pageNo, FALSE))
  /\ net' = [net EXCEPT ![<<file, pageNo>>] =
               IF last'.status = "ok" THEN @ + 1 ELSE @]
  /\ UNCHANGED refused

unPinPageCounted(file, pageNo, dirty) ==
  /\ net[<<file, pageNo>>] > -MaxPin
  /\ Apply(unPinPageOut(file, pageNo, dirty))
  /\ net' = [net EXCEPT ![<<file, pageNo>>] =
               IF last'.status = "ok" /\ last'.frame # NoFrame THEN @ - 1 ELSE @]
  /\ UNCHANGED refused

\* BufMgr::BufMgr: every frame invalid, the hand on the last frame.
Init ==
  /\ bufDescTable = [f \in Frames |-> clear]
  /\ hashTable = [k \in Keys |-> NoFrame]
  /\ bufPool = [f \in Frames |-> INVALID_NUMBER]
  /\ clockHand = numBufs - 1
  /\ store = Keys
  /\ last = Call("BufMgr", NoFile, INVALID_NUMBER, "ok", NoFrame, FALSE, NoAlloc, <<>>)
  /\ net = [k \in Keys |-> 0]
  /\ refused = 0

\* The hash table always accepts an insert.
Next ==
  \/ \E k \in Keys : readPage(k[1], k[2], FALSE)
  \/ \E k \in Keys, dirty \in BOOLEAN : unPinPage(k[1], k[2], dirty)
  \/ \E k \in Keys : allocPage(k[1], k[2], FALSE)
  \/ \E file \in Files : flushFile(file)
  \/ \E k \in Keys : disposePage(k[1], k[2])

Spec == Init /\ [][Next]_vars

\* Only fetches and unpins, counted.
NextPins ==
  \/ \E k \in Keys : readPageCounted(k[1], k[2])
  \/ \E k \in Keys, dirty \in BOOLEAN : unPinPageCounted(k[1], k[2], dirty)

SpecPins == Init /\ [][NextPins]_vars

\* The hash table may refuse an insert for want of room, MaxRefused times.
NextFull ==
  \/ \E k \in Keys, full \in BOOLEAN : readPage(k[1], k[2], full)
  \/ \E k \in Keys, dirty \in BOOLEAN : unPinPage(k[1], k[2], dirty)
  \/ \E k \in Keys, full \in BOOLEAN : allocPage(k[1], k[2], full)
  \/ \E file \in Files : flushFile(file)
  \/ \E k \in Keys : disposePage(k[1], k[2])

SpecFull == Init /\ [][NextFull]_vars

\* ------------------------------------------------------------- properties
\* Frame f is valid for the key (file, pageNo).
Holds(d, f, file, pageNo) ==
  d[f].valid /\ d[f].file = file /\ d[f].pageNo = pageNo

Resident(d, file, pageNo) == \E f \in Frames : Holds(d, f, file, pageNo)

\* C1: the page index has an entry for a key exactly when some frame is valid
\* for that key, and the entry names that frame (so the entry of an evicted
\* victim is gone).
C1_IndexMatchesValidFrames ==
  \A k \in Keys :
    /\ (hashTable[k] # NoFrame) <=> Resident(bufDescTable, k[1], k[2])
    /\ hashTable[k] # NoFrame => Holds(bufDescTable, hashTable[k], k[1], k[2])

\* The last call went through the clock allocator and it chose a frame.
Allocated == last.op \in {"readPage", "allocPage"} /\ last.sel.frame # NoFrame

\* C2: a fetch miss or an allocPage never fails with BufferExceeded when, at
\* the time of the call, some frame is invalid or has pinCnt = 0.
C2_NoExhaustionWithFreeFrame ==
  [][(/\ last'.op \in {"readPage", "allocPage"}
      /\ \E f \in Frames : ~bufDescTable[f].valid \/ bufDescTable[f].pinCnt = 0)
     => last'.status # "BufferExceeded"]_vars

\* C3: a successful fetchPage returns a frame that is valid for exactly the
\* requested key, with refbit set and pinCnt >= 1; a miss leaves pinCnt = 1 and
\* dirty = FALSE, a hit adds one to pinCnt and keeps dirty.
C3_FetchPostcondition ==
  [][(last'.op = "readPage" /\ last'.status = "ok") =>
       LET f == last'.frame IN
       /\ Holds(bufDescTable', f, last'.file, last'.pageNo)
       /\ bufDescTable'[f].refbit
       /\ bufDescTable'[f].pinCnt >= 1
       /\ ~last'.hit => bufDescTable'[f].pinCnt = 1 /\ ~bufDescTable'[f].dirty
       /\ last'.hit => /\ bufDescTable'[f].pinCnt = bufDescTable[f].pinCnt + 1
                       /\ bufDescTable'[f].dirty = bufDescTable[f].dirty]_vars

\* C4: a fetchPage that returns reads the page store exactly once when no valid
\* frame held the key at the time of the call, and not at all when one did.
C4_OneReadExactlyOnMiss ==
  [][(last'.op = "readPage" /\ last'.status = "ok") =>
       Count(last'.io, "read") =
         (IF Resident(bufDescTable, last'.file, last'.pageNo) THEN 0 ELSE 1)]_vars

\* C5: the pinCnt of the frame serving a key is the number of fetches of the
\* key minus the number of its successful unpins, never negative, and an unpin
\* that raises PageNotPinned changes nothing.
C5_PinBalance ==
  [][/\ \A k \in Keys : \A f \in Frames :
          Holds(bufDescTable', f, k[1], k[2]) =>
            bufDescTable'[f].pinCnt = net'[k] /\ bufDescTable'[f].pinCnt >= 0
     /\ last'.status = "PageNotPinned" =>
          UNCHANGED <<bufDescTable, hashTable, bufPool, clockHand, store>>]_vars

\* C6: unPinPage of a key that no valid frame holds raises nothing and leaves
\* every descriptor, the page index and the clock hand as they were.
C6_UnpinAbsentIsNoOp ==
  [][(last'.op = "unPinPage"
      /\ ~Resident(bufDescTable, last'.file, last'.pageNo)) =>
       /\ last'.status = "ok"
       /\ UNCHANGED <<bufDescTable, hashTable, clockHand>>]_vars

\* C7: the frame the clock allocator chooses has pinCnt = 0 at the step that
\* chooses it, and if it is valid its refbit is clear at that step.
C7_VictimUnpinnedAndAged ==
  Allocated => last.sel.pinCnt = 0 /\ (last.sel.valid => ~last.sel.refbit)

\* C8: when the allocator chooses a valid frame that is dirty, the call writes
\* that frame's page to its file exactly once, before the descriptor is Set
\* and before the new page is read or loaded into the frame; when the valid
\* frame chosen is clean, the call writes nothing.
C8_WriteBackBeforeReuse ==
  (Allocated /\ last.sel.valid) =>
    LET io == last.io
        w  == {i \in DOMAIN io : io[i].ev = "write"}
        re == {j \in DOMAIN io : io[j].ev \in {"Set", "read", "load"}
                                  /\ io[j].frame = last.sel.frame}
    IN IF last.sel.dirty
         THEN /\ Cardinality(w) = 1
              /\ \A i \in w :
                   /\ io[i] = Ev("write", last.sel.file, last.sel.pageNo, last.sel.frame)
                   /\ \A j \in re : i < j
         ELSE w = {}

\* The descriptors d and e differ in refbits at most.
SameButRefbit(d, e) ==
  \A f \in Frames : [d[f] EXCEPT !.refbit = FALSE] = [e[f] EXCEPT !.refbit = FALSE]

AllPinned(d) == \A f \in Frames : d[f].valid /\ d[f].pinCnt > 0

\* C9: with every frame valid and pinned, a fetchPage of a page that no frame
\* holds and an allocPage raise BufferExceeded and leave valid, pinCnt, dirty,
\* the key of every frame and the page index as they were.
C9_ExhaustionLeavesPoolIntact ==
  [][(/\ AllPinned(bufDescTable)
      /\ \/ last'.op = "allocPage"
         \/ last'.op = "readPage" /\ ~Resident(bufDescTable, last'.file, last'.pageNo))
     => /\ last'.status = "BufferExceeded"
        /\ SameButRefbit(bufDescTable, bufDescTable')
        /\ hashTable' = hashTable]_vars

\* C10: after a flushFile(f) that returns, no descriptor references f and the
\* page index has no entry of f.
C10_FlushLeavesNothingOfFile ==
  (last.op = "flushFile" /\ last.status = "ok") =>
    /\ \A f \in Frames : bufDescTable[f].file # last.file
    /\ \A k \in Keys : k[1] = last.file => hashTable[k] = NoFrame

\* The events of the log io that concern frame f and are of kind what.
CountAt(io, what, f) ==
  Cardinality({i \in DOMAIN io : io[i].ev = what /\ io[i].frame = f})

\* C11: a flushFile(f) that raises PagePinned stops at the first frame of f,
\* in ascending order, whose pinCnt > 0: every lower frame of f is cleared,
\* its index entry removed, and written once exactly if it was dirty; the
\* pinned frame and every higher frame keep their descriptor and the index
\* entries that name them, and none of them is written.
C11_FlushStopsAtFirstPinned ==
  [][(last'.op = "flushFile" /\ last'.status = "PagePinned") =>
       LET p  == last'.frame
           io == last'.io
       IN /\ bufDescTable[p].file = last'.file /\ bufDescTable[p].pinCnt > 0
          /\ \A f \in Frames : (f < p /\ bufDescTable[f].file = last'.file) =>
                /\ bufDescTable[f].pinCnt = 0
                /\ bufDescTable'[f] = clear
                /\ hashTable'[<<last'.file, bufDescTable[f].pageNo>>] = NoFrame
                /\ CountAt(io, "write", f) = (IF bufDescTable[f].dirty THEN 1 ELSE 0)
          /\ \A f \in Frames : (f >= p \/ bufDescTable[f].file # last'.file) =>
                /\ bufDescTable'[f] = bufDescTable[f]
                /\ CountAt(io, "write", f) = 0
          /\ \A k \in Keys : hashTable[k] >= p => hashTable'[k] = hashTable[k]
          /\ \A i, j \in DOMAIN io : i < j => io[i].frame <= io[j].frame]_vars

\* C12: disposePage(f, p) raises nothing, forwards exactly one delete of
\* (f, p) to the page store, and leaves no frame valid for (f, p) and no index
\* entry for (f, p).
C12_DisposeLeavesNothingOfPage ==
  last.op = "disposePage" =>
    /\ last.status = "ok"
    /\ Count(last.io, "delete") = 1
    /\ \A i \in DOMAIN last.io :
         last.io[i].ev = "delete" =>
           last.io[i] = Ev("delete", last.file, last.pageNo, NoFrame)
    /\ ~Resident(bufDescTable, last.file, last.pageNo)
    /\ hashTable[<<last.file, last.pageNo>>] = NoFrame

\* C13: when the hash table refuses the insert of allocPage, the frame claimed
\* for the new page ends invalid with pinCnt = 0, no index entry names the new
\* page, and the call does not return normally.
C13_AllocPageInsertRefused ==
  (last.op = "allocPage" /\ last.sel.frame # NoFrame
   /\ Count(last.io, "insert") = 0) =>
    /\ last.status # "ok"
    /\ ~bufDescTable[last.sel.frame].valid
    /\ bufDescTable[last.sel.frame].pinCnt = 0
    /\ hashTable[<<last.file, last.pageNo>>] = NoFrame

\* C14: when a fetchPage miss fails after the allocator chose a frame (the
\* read of the page store or the insert into the index fails), that frame
\* ends invalid with pinCnt = 0, whether it was invalid or a valid victim.
C14_FailedFetchRollsBack ==
  (last.op = "readPage" /\ last.status \in {"InvalidPage", "InsufficientSpace"}) =>
    /\ ~bufDescTable[last.sel.frame].valid
    /\ bufDescTable[last.sel.frame].pinCnt = 0

\* C15: no two frames are valid for the same key after a call, and no call
\* inserts a key that has an entry in the page index.
C15_OneFramePerKey ==
  [][/\ \A f, g \in Frames :
          (f # g /\ bufDescTable'[f].valid /\ bufDescTable'[g].valid) =>
            <<bufDescTable'[f].file, bufDescTable'[f].pageNo>>
              # <<bufDescTable'[g].file, bufDescTable'[g].pageNo>>
     /\ \A i \in DOMAIN last'.io :
          last'.io[i].ev = "insert" =>
            hashTable[<<last'.io[i].file, last'.io[i].pageNo>>] = NoFrame]_vars

\* C16: a frame whose descriptor is invalid has pinCnt = 0, dirty = FALSE and
\* no entry of the page index names it.
C16_InvalidFrameIsFree ==
  \A f \in Frames :
    ~bufDescTable[f].valid =>
      /\ bufDescTable[f].pinCnt = 0
      /\ ~bufDescTable[f].dirty
      /\ \A k \in Keys : hashTable[k] # f

\* The last call ran the clock allocator.
Swept == last.op \in {"readPage", "allocPage"} /\ ~last.hit

\* C17: a call of the clock allocator ends after at most 2 * numBufs + 1
\* advances of the hand, with a frame chosen or with BufferExceeded.
C17_SweepBounded ==
  Swept =>
    /\ last.steps >= 1 /\ last.steps <= 2 * numBufs + 1
    /\ (last.sel.frame # NoFrame) <=> (last.status # "BufferExceeded")

\* The allocator gave up after the longest sweep there is.
C17_LongestSweep ==
  Swept /\ last.status = "BufferExceeded" /\ last.steps = 2 * numBufs + 1

\* C18: the clock hand stays in 0..numBufs-1; a call moves it by one step
\* (+1 mod numBufs) for each advance of the allocator and by nothing else, so
\* a fetchPage hit, unPinPage, flushFile and disposePage leave it alone; when
\* the allocator chose a frame the hand is on that frame.
C18_HandMovesWithSweepOnly ==
  [][/\ clockHand' \in Frames
     /\ (last'.op \in {"unPinPage", "flushFile", "disposePage"} \/ last'.hit)
          => (last'.steps = 0 /\ clockHand' = clockHand)
     /\ clockHand' = (clockHand + last'.steps) % numBufs
     /\ last'.sel.frame # NoFrame => clockHand' = last'.sel.frame]_vars

\* A fetch miss went once round the pool and further before it chose a frame.
C18_HandWentRound ==
  /\ Swept /\ last.op = "readPage" /\ last.status = "ok"
  /\ last.steps > numBufs
  /\ clockHand = last.frame

\* C19: disposePage(f, p) leaves the descriptor and the index entry of every
\* frame that is valid for another key as they were.
C19_DisposeTouchesOnlyItsPage ==
  [][last'.op = "disposePage" =>
       \A f \in Frames :
         (bufDescTable[f].valid
          /\ <<bufDescTable[f].file, bufDescTable[f].pageNo>>
                # <<last'.file, last'.pageNo>>) =>
           /\ bufDescTable'[f] = bufDescTable[f]
           /\ hashTable'[<<bufDescTable[f].file, bufDescTable[f].pageNo>>]
                = hashTable[<<bufDescTable[f].file, bufDescTable[f].pageNo>>]]_vars

====
